---- MODULE Spec2Model ----
(***************************************************************************)
(* The `variance` crate (src/src/lib.rs): three zero-sized marker types,   *)
(* Covariant<T>, Contravariant<T> and Invariant<T>, the sealed trait       *)
(* Variance and the factory variance::<M>().                               *)
(*                                                                         *)
(* The crate has no run-time state of its own.  What it decides is what a  *)
(* client crate may write against it and what the compiler then infers,   *)
(* so the state is a client crate under development: the marker values it *)
(* has constructed, the impl items it has written, and the fields of a    *)
(* generic struct it declares.  Every step is one item or expression the  *)
(* client writes, accepted or rejected by the declarations of lib.rs.     *)
(***************************************************************************)
EXTENDS Integers, Sequences, FiniteSets, TLC

VARIABLES
    vals,       \* marker values the client has constructed, oldest first
    diag,       \* the compiler's verdict on the client's latest item
    impls,      \* impl items of the client crate the compiler has accepted
    fields      \* field types of the client's struct Container<Arg, Ret>

vars == <<vals, diag, impls, fields>>

----------------------------------------------------------------------------
(* Bounds of the exploration *)

MaxVals == 2
MaxImpls == 3
MaxFields == 3

----------------------------------------------------------------------------
(* Types *)

\* A type is a constructor applied to argument types.
Ty(con, args) == [con |-> con, args |-> args]

\* The three marker families.
Kinds == {"Covariant", "Contravariant", "Invariant"}

\* The traits every marker derives.
DeriveList ==
    {"Copy", "Clone", "PartialEq", "Eq", "PartialOrd", "Ord", "Hash", "Debug"}

\* Type arguments T the client instantiates the markers with.  `T: ?Sized`
\* admits every one of them: a type with every capability (u8), an unsized
\* type (str), a client struct with no capability at all (Opaque), and two
\* reference types related by subtyping: &'static u8 <: &'a u8.
TArgs == {"u8", "str", "Opaque", "RefStatic", "RefShort"}

\* The type arguments the value steps range over.
ValArgs == {"u8", "str", "Opaque"}

\* A type the client crate defines itself.
ClientTypes == {"Mine"}

\* What each type argument is capable of by itself.
Caps(t) ==
    CASE t = "u8"        -> DeriveList \cup {"Default", "Sized"}
      [] t = "str"       -> DeriveList \ {"Copy", "Clone"}
      [] t = "Opaque"    -> {"Sized"}
      [] t = "RefStatic" -> DeriveList \cup {"Sized"}
      [] t = "RefShort"  -> DeriveList \cup {"Sized"}
      [] t = "Mine"      -> {"Sized"}
      [] OTHER           -> {}

\* Covariant<T>, Contravariant<T> or Invariant<T>.
MarkerTy(kind, t) == Ty(kind, <<Ty(t, <<>>)>>)

MarkerTypes(args) == {MarkerTy(k, t) : k \in Kinds, t \in args}

IsMarker(ty) == ty.con \in Kinds

\* Variant: the field written as PhantomData<T>, which tells the drop
\* checker that the marker owns a T.
CovariantFieldOwning(x) == Ty("PhantomData", <<x>>)

\* struct Covariant<T: ?Sized> { marker: PhantomData<fn() -> T> }
CovariantField(x) == Ty("PhantomData", <<Ty("FnRet", <<x>>)>>)

\* Variant: the field written with T in return position.
ContravariantFieldRet(x) == Ty("PhantomData", <<Ty("FnRet", <<x>>)>>)

\* struct Contravariant<T: ?Sized> { marker: PhantomData<fn(T)> }
ContravariantField(x) == Ty("PhantomData", <<Ty("FnArg", <<x>>)>>)

\* Variant: Invariant defined on its own, as one PhantomData of a function type,
\* instead of as the pair of the two other markers.
InvariantFieldIndependent(x) ==
    Ty("PhantomData", <<Ty("FnArg", <<Ty("FnRet", <<x>>)>>)>>)

\* struct Invariant<T: ?Sized> { marker: (Covariant<T>, Contravariant<T>) }
InvariantField(x) ==
    Ty("Tuple", <<Ty("Covariant", <<x>>), Ty("Contravariant", <<x>>)>>)

\* The type of the single private field `marker` of a marker of type ty.
FieldTy(ty) ==
    CASE ty.con = "Covariant"     -> CovariantField(ty.args[1])
      [] ty.con = "Contravariant" -> ContravariantField(ty.args[1])
      [] ty.con = "Invariant"     -> InvariantField(ty.args[1])

----------------------------------------------------------------------------
(* Trait implementations *)

\* #[derive(D)] on `struct M<T: ?Sized>` expands to
\* `impl<T: D + ?Sized> D for M<T>`: the bound T: D comes with the derive.
DeriveBounds(d) == {d}

\* Variant: Default derived like the other traits, which adds T: Default.
DefaultBoundsDerived == {"Default"}

\* impl<T: ?Sized> Default for M<T>: written by hand, no bound on T.
DefaultBounds == {}

\* impl<T: ?Sized> private::Sealed for M<T> and impl<T: ?Sized> Variance for M<T>.
SealedBounds == {}

\* The impl items of lib.rs: the trait, the family and the bounds on T.
LibImpls ==
    {[trait |-> d, kind |-> k, bounds |-> DeriveBounds(d)] :
        d \in DeriveList, k \in Kinds}
    \cup {[trait |-> "Default", kind |-> k, bounds |-> DefaultBounds] : k \in Kinds}
    \cup {[trait |-> "Sealed", kind |-> k, bounds |-> SealedBounds] : k \in Kinds}
    \cup {[trait |-> "Variance", kind |-> k, bounds |-> SealedBounds] : k \in Kinds}

\* Whether type ty implements trait tr, given the client's accepted impls.
RECURSIVE Implements(_, _, _)
Implements(tr, ty, accepted) ==
    CASE ty.con = "PhantomData" -> tr \in DeriveList \cup {"Default", "Sized"}
      [] ty.con = "Tuple" ->
            \A i \in 1..Len(ty.args) : Implements(tr, ty.args[i], accepted)
      [] ty.con \in Kinds ->
            \/ tr = "Sized"
            \/ \E im \in LibImpls :
                  /\ im.trait = tr
                  /\ im.kind = ty.con
                  /\ \A b \in im.bounds : Implements(b, ty.args[1], accepted)
            \/ [trait |-> tr, ty |-> ty] \in accepted
      [] OTHER ->
            \/ tr \in Caps(ty.con)
            \/ [trait |-> tr, ty |-> ty] \in accepted

----------------------------------------------------------------------------
(* Values *)

\* A value is its type and the values of its parts.
Val(ty, parts) == [ty |-> ty, parts |-> parts]

\* Default::default() at type ty, as the impls of lib.rs and of core compute
\* it: `Self { marker: Default::default() }` for a marker, element-wise for a
\* tuple, the unit value for PhantomData.
RECURSIVE DefaultOf(_)
DefaultOf(ty) ==
    CASE ty.con = "PhantomData" -> Val(ty, <<>>)
      [] ty.con = "Tuple" -> Val(ty, [i \in 1..Len(ty.args) |-> DefaultOf(ty.args[i])])
      [] ty.con \in Kinds -> Val(ty, <<DefaultOf(FieldTy(ty))>>)
      [] OTHER -> Val(ty, <<>>)

\* Variant: the factory choosing the constructor itself, Invariant taken
\* for Covariant.
varianceBranching(m) ==
    IF m.con = "Invariant" THEN DefaultOf(Ty("Covariant", m.args)) ELSE DefaultOf(m)

\* pub fn variance<T: Variance>() -> T { Default::default() }
variance(m) == DefaultOf(m)

\* #[derive(Clone)]: the clone of a value is the clone of each field.
RECURSIVE CloneOf(_)
CloneOf(v) == Val(v.ty, [i \in 1..Len(v.parts) |-> CloneOf(v.parts[i])])

\* #[derive(PartialEq)]: two values are equal when all their fields are;
\* PhantomData == PhantomData is true.
RECURSIVE DerivedEq(_, _)
DerivedEq(a, b) ==
    \A i \in 1..Len(a.parts) : DerivedEq(a.parts[i], b.parts[i])

\* #[derive(PartialOrd, Ord)]: lexicographic over the fields; PhantomData
\* compares Equal to PhantomData.
RECURSIVE DerivedCmp(_, _, _)
DerivedCmp(a, b, i) ==
    IF i > Len(a.parts) THEN "Equal"
    ELSE LET c == DerivedCmp(a.parts[i], b.parts[i], 1)
         IN  IF c = "Equal" THEN DerivedCmp(a, b, i + 1) ELSE c

\* #[derive(Hash)]: the fields are fed to the hasher in order; PhantomData
\* feeds nothing.  The result is what the hasher is fed.
RECURSIVE DerivedHash(_, _)
DerivedHash(v, i) ==
    IF i > Len(v.parts) THEN <<>>
    ELSE DerivedHash(v.parts[i], 1) \o DerivedHash(v, i + 1)

\* The values of a type argument T held anywhere inside value v.
RECURSIVE HeldT(_)
HeldT(v) ==
    (IF v.ty.con \in TArgs THEN {v} ELSE {})
    \cup UNION {HeldT(v.parts[i]) : i \in 1..Len(v.parts)}

----------------------------------------------------------------------------
(* The client's expressions *)

NoCmp == [eq |-> "none", ord |-> "none", hash |-> "none"]

\* The verdict on the latest item: what was written, at which type, the
\* compiler's answer and, for a comparison, what it evaluated to.
Verdict(op, ty, code, result) ==
    [op |-> op, ty |-> ty, code |-> code, result |-> result]

NoType == Ty("none", <<>>)

\* A binding of the client: how it was obtained, its declared type, its value.
Entry(via, ty, v) == [via |-> via, ty |-> ty, val |-> v]

\* The types the client asks the factory for: the markers and two others.
FactoryArgs ==
    MarkerTypes(ValArgs) \cup {Ty("u8", <<>>)} \cup {Ty(c, <<>>) : c \in ClientTypes}

\* `let x: M = Default::default();` for a marker type M.
CallDefault(m) ==
    /\ Len(vals) < MaxVals
    /\ IF Implements("Default", m, impls)
       THEN /\ vals' = Append(vals, Entry("default", m, DefaultOf(m)))
            /\ diag' = Verdict("default", m, "ok", NoCmp)
       ELSE /\ vals' = vals
            /\ diag' = Verdict("default", m, "E0277", NoCmp)
    /\ UNCHANGED <<impls, fields>>

\* `let x = variance::<M>();`: the bound M: Variance decides.
CallVariance(m) ==
    /\ Len(vals) < MaxVals
    /\ IF Implements("Variance", m, impls)
       THEN /\ vals' = Append(vals, Entry("variance", m, variance(m)))
            /\ diag' = Verdict("variance", m, "ok", NoCmp)
       ELSE /\ vals' = vals
            /\ diag' = Verdict("variance", m, "E0277", NoCmp)
    /\ UNCHANGED <<impls, fields>>

\* `let y = x; use(x);`: a bitwise copy, allowed when the type is Copy.
CopyValue(i) ==
    /\ Len(vals) < MaxVals
    /\ i \in 1..Len(vals)
    /\ LET v == vals[i].val
           ty == vals[i].ty
       IN  IF Implements("Copy", ty, impls)
           THEN /\ vals' = Append(vals, Entry("copy", ty, v))
                /\ diag' = Verdict("copy", ty, "ok", NoCmp)
           ELSE /\ vals' = vals
                /\ diag' = Verdict("copy", ty, "E0382", NoCmp)
    /\ UNCHANGED <<impls, fields>>

\* `let y = x.clone();`
CloneValue(i) ==
    /\ Len(vals) < MaxVals
    /\ i \in 1..Len(vals)
    /\ LET v == vals[i].val
           ty == vals[i].ty
       IN  IF Implements("Clone", ty, impls)
           THEN /\ vals' = Append(vals, Entry("clone", ty, CloneOf(v)))
                /\ diag' = Verdict("clone", ty, "ok", NoCmp)
           ELSE /\ vals' = vals
                /\ diag' = Verdict("clone", ty, "E0599", NoCmp)
    /\ UNCHANGED <<impls, fields>>

\* `x == y`, `x.cmp(&y)` and the hashes of x and y, for two values of one
\* type; each is an error where the type lacks the trait.
Compare(i, j) ==
    /\ i \in 1..Len(vals)
    /\ j \in 1..Len(vals)
    /\ i # j
    /\ vals[i].ty = vals[j].ty
    /\ LET a == vals[i].val
           b == vals[j].val
           ty == vals[i].ty
           r == [eq   |-> IF ~Implements("PartialEq", ty, impls) THEN "E0369"
                          ELSE IF DerivedEq(a, b) THEN "true" ELSE "false",
                 ord  |-> IF ~Implements("Ord", ty, impls) THEN "E0599"
                          ELSE DerivedCmp(a, b, 1),
                 hash |-> IF ~Implements("Hash", ty, impls) THEN "E0599"
                          ELSE IF DerivedHash(a, 1) = DerivedHash(b, 1)
                               THEN "same" ELSE "differ"]
       IN  diag' = Verdict("compare", ty,
                           IF r.eq = "E0369" THEN "E0369"
                           ELSE IF "E0599" \in {r.ord, r.hash} THEN "E0599"
                           ELSE "ok", r)
    /\ UNCHANGED <<vals, impls, fields>>

\* The values go out of scope; nothing is released, there is no Drop impl.
DropAll ==
    /\ vals # <<>>
    /\ vals' = <<>>
    /\ diag' = Verdict("drop", NoType, "ok", NoCmp)
    /\ UNCHANGED <<impls, fields>>

Init ==
    /\ vals = <<>>
    /\ diag = Verdict("none", NoType, "ok", NoCmp)
    /\ impls = {}
    /\ fields = <<>>

Next ==
    \/ \E m \in MarkerTypes(ValArgs) : CallDefault(m)
    \/ \E m \in FactoryArgs : CallVariance(m)
    \/ \E i \in 1..MaxVals : CopyValue(i)
    \/ \E i \in 1..MaxVals : CloneValue(i)
    \/ \E i, j \in 1..MaxVals : Compare(i, j)
    \/ DropAll

Spec == Init /\ [][Next]_vars

----------------------------------------------------------------------------
(* The client's impl items *)

\* The traits the client tries to implement: two of core, the two of
\* lib.rs, and one of its own.
ImplTraits == {"Default", "Clone", "Sealed", "Variance", "Local"}

\* The types it tries to implement them for: its own, one of core, a marker.
ImplTypes ==
    {Ty(c, <<>>) : c \in ClientTypes} \cup {Ty("u8", <<>>), MarkerTy("Covariant", "u8")}

\* Variant: the module `private` declared pub.
NameablePublic(tr) == TRUE

\* `mod private { pub trait Sealed {} }`: the module is private, so no path
\* to Sealed resolves outside lib.rs; every other trait here is public.
Nameable(tr) == tr # "Sealed"

\* pub trait Variance: Default + private::Sealed {}
Supertraits(tr) ==
    CASE tr = "Variance" -> {"Default", "Sealed"}
      [] tr = "Clone"    -> {"Sized"}
      [] tr = "Default"  -> {"Sized"}
      [] OTHER           -> {}

\* The compiler's verdict on `impl tr for ty {}` in the client crate: the
\* trait must be nameable (E0603), the trait or the type must be the
\* client's own (E0117), no other impl may cover the type (E0119) and the
\* type must implement the supertraits (E0277).
ImplVerdict(tr, ty, accepted) ==
    IF ~Nameable(tr) THEN "E0603"
    ELSE IF ~(tr = "Local" \/ ty.con \in ClientTypes) THEN "E0117"
    ELSE IF Implements(tr, ty, accepted) THEN "E0119"
    ELSE IF \E s \in Supertraits(tr) : ~Implements(s, ty, accepted) THEN "E0277"
    ELSE "ok"

ExternImpl(tr, ty) ==
    /\ Cardinality(impls) < MaxImpls
    /\ LET code == ImplVerdict(tr, ty, impls)
       IN  /\ diag' = Verdict("impl", ty, code, NoCmp)
           /\ impls' = IF code = "ok"
                       THEN impls \cup {[trait |-> tr, ty |-> ty]}
                       ELSE impls
    /\ UNCHANGED <<vals, fields>>

\* The types that satisfy the bound `M: Variance`, among all the client can
\* write down.
AllTypes == MarkerTypes(TArgs) \cup FactoryArgs \cup ImplTypes

VarianceTypes(accepted) == {ty \in AllTypes : Implements("Variance", ty, accepted)}

NextSeal ==
    \/ \E tr \in ImplTraits, ty \in ImplTypes : ExternImpl(tr, ty)
    \/ \E m \in FactoryArgs : CallVariance(m)
    \/ DropAll

SpecSeal == Init /\ [][NextSeal]_vars

----------------------------------------------------------------------------
(* Variance inference over the client's struct Container<Arg, Ret> *)

\* The type parameters of the client's struct.
Params == {"Arg", "Ret"}

\* T is a subtype of U: equal, or the longer-lived reference.
Sub(t, u) == t = u \/ (t = "RefStatic" /\ u = "RefShort")

\* The compiler's variances: "bi" (the parameter is not used), "co",
\* "contra" and "inv".
Variances == {"bi", "co", "contra", "inv"}

\* Variant: of two differing directions the later use wins.
MeetLast(v, w) == IF w = "bi" THEN v ELSE w

\* Variant: an unused position counted as a differing direction.
MeetStrict(v, w) == IF v = w THEN v ELSE "inv"

\* Two uses of one parameter: the same direction stays, an unused position
\* leaves the other alone, differing directions give invariance.
Meet(v, w) ==
    IF v = w THEN v
    ELSE IF v = "bi" THEN w
    ELSE IF w = "bi" THEN v
    ELSE "inv"

\* The variance of a position of variance w inside a position of variance v.
Xform(v, w) ==
    CASE v = "co"     -> w
      [] v = "contra" -> (CASE w = "co" -> "contra"
                            [] w = "contra" -> "co"
                            [] OTHER -> w)
      [] v = "inv"    -> "inv"
      [] v = "bi"     -> "bi"

\* The variance of type ty in parameter p, from the structure of ty:
\* PhantomData<X> as X, fn() -> X covariant in X, fn(X) contravariant in X,
\* Box<X> and &'a X covariant in X, a tuple or a struct the meet of its
\* fields.
RECURSIVE VarianceIn(_, _)
VarianceIn(ty, p) ==
    CASE ty.con = p -> "co"
      [] ty.con = "PhantomData" -> VarianceIn(ty.args[1], p)
      [] ty.con = "FnRet" -> Xform("co", VarianceIn(ty.args[1], p))
      [] ty.con = "FnArg" -> Xform("contra", VarianceIn(ty.args[1], p))
      [] ty.con \in {"Box", "Ref"} -> Xform("co", VarianceIn(ty.args[1], p))
      [] ty.con = "Tuple" ->
            LET RECURSIVE Fold(_)
                Fold(i) == IF i > Len(ty.args) THEN "bi"
                           ELSE Meet(VarianceIn(ty.args[i], p), Fold(i + 1))
            IN  Fold(1)
      [] ty.con \in Kinds -> VarianceIn(FieldTy(ty), p)
      [] OTHER -> "bi"

\* The variance the compiler infers for parameter p of a struct with the
\* field types fs.
RECURSIVE InferredVariance(_, _)
InferredVariance(fs, p) ==
    IF fs = <<>> THEN "bi"
    ELSE Meet(VarianceIn(Head(fs), p), InferredVariance(Tail(fs), p))

\* F<T> is a subtype of F<U>, for a parameter of variance v.
SubtypeBy(v, t, u) ==
    CASE v = "co"     -> Sub(t, u)
      [] v = "contra" -> Sub(u, t)
      [] v = "inv"    -> t = u
      [] v = "bi"     -> TRUE

\* Container<a1, r1> may be used where Container<a2, r2> is expected.
Assignable(fs, a1, r1, a2, r2) ==
    /\ SubtypeBy(InferredVariance(fs, "Arg"), a1, a2)
    /\ SubtypeBy(InferredVariance(fs, "Ret"), r1, r2)

\* Sizes and alignments in bytes.
U32Size == 4
PtrSize == 8

Max(a, b) == IF a >= b THEN a ELSE b

RECURSIVE AlignOf(_)
AlignOf(ty) ==
    CASE ty.con = "PhantomData" -> 1
      [] ty.con = "u32" -> U32Size
      [] ty.con \in {"Box", "Ref", "FnRet", "FnArg"} -> PtrSize
      [] ty.con = "Tuple" ->
            LET RECURSIVE Fold(_)
                Fold(i) == IF i > Len(ty.args) THEN 1
                           ELSE Max(AlignOf(ty.args[i]), Fold(i + 1))
            IN  Fold(1)
      [] ty.con \in Kinds -> AlignOf(FieldTy(ty))
      [] OTHER -> 1

RoundUp(n, a) == ((n + a - 1) \div a) * a

RECURSIVE SizeOf(_)
SizeOf(ty) ==
    CASE ty.con = "PhantomData" -> 0
      [] ty.con = "u32" -> U32Size
      [] ty.con \in {"Box", "Ref", "FnRet", "FnArg"} -> PtrSize
      [] ty.con = "Tuple" ->
            LET RECURSIVE Fold(_)
                Fold(i) == IF i > Len(ty.args) THEN 0
                           ELSE SizeOf(ty.args[i]) + Fold(i + 1)
            IN  RoundUp(Fold(1), AlignOf(ty))
      [] ty.con \in Kinds -> RoundUp(SizeOf(FieldTy(ty)), AlignOf(ty))
      [] OTHER -> 1

\* The size of a struct with the field types fs.
RECURSIVE SumSizes(_)
SumSizes(fs) == IF fs = <<>> THEN 0 ELSE SizeOf(Head(fs)) + SumSizes(Tail(fs))

RECURSIVE MaxAlign(_)
MaxAlign(fs) == IF fs = <<>> THEN 1 ELSE Max(AlignOf(Head(fs)), MaxAlign(Tail(fs)))

StructSize(fs) == RoundUp(SumSizes(fs), MaxAlign(fs))

\* Whether a value of type ty owns a value of parameter p, as the drop
\* checker sees it: p itself, Box<X> and PhantomData<X> as X, a tuple or a
\* struct as its fields; a reference and a function pointer own nothing.
RECURSIVE Owns(_, _)
Owns(ty, p) ==
    CASE ty.con = p -> TRUE
      [] ty.con \in {"PhantomData", "Box"} -> Owns(ty.args[1], p)
      [] ty.con = "Tuple" -> \E i \in 1..Len(ty.args) : Owns(ty.args[i], p)
      [] ty.con \in Kinds -> Owns(FieldTy(ty), p)
      [] OTHER -> FALSE

OwnedParams(fs) == {p \in Params : \E i \in 1..Len(fs) : Owns(fs[i], p)}

\* The field types the client chooses from: `other_data: u32`, and for each
\* parameter p: Box<p>, &'a p and the three markers.
FieldChoices ==
    {Ty("u32", <<>>)}
    \cup {Ty(c, <<Ty(p, <<>>)>>) : c \in {"Box", "Ref"} \cup Kinds, p \in Params}

\* A struct whose parameter is used nowhere is rejected (E0392).
StructVerdict(fs) ==
    IF \E p \in Params : InferredVariance(fs, p) = "bi" THEN "E0392" ELSE "ok"

\* The client adds a field to Container<Arg, Ret>; the compiler infers the
\* variances again.
AddField(f) ==
    /\ Len(fields) < MaxFields
    /\ fields' = Append(fields, f)
    /\ diag' = Verdict("struct", f, StructVerdict(fields'), NoCmp)
    /\ UNCHANGED <<vals, impls>>

\* The client starts the struct over.
NewStruct ==
    /\ fields # <<>>
    /\ fields' = <<>>
    /\ diag' = Verdict("struct", NoType, StructVerdict(fields'), NoCmp)
    /\ UNCHANGED <<vals, impls>>

NextInfer ==
    \/ \E f \in FieldChoices : AddField(f)
    \/ NewStruct

SpecInfer == Init /\ [][NextInfer]_vars

----------------------------------------------------------------------------
(* Properties *)

\* The variance each marker's name and documentation declare.
DeclaredVariance(k) ==
    CASE k = "Covariant"     -> "co"
      [] k = "Contravariant" -> "contra"
      [] k = "Invariant"     -> "inv"

\* Field type f mentions parameter p.
IsMention(f, p) == f.args # <<>> /\ f.args[1].con = p

\* C1: each marker has the variance its name declares, for every T: the
\* variance computed from the field type of Covariant<T> is covariant, of
\* Contravariant<T> contravariant, of Invariant<T> invariant; a marker field
\* of the client's struct contributes that variance for its own parameter
\* and none for the other, and the subtyping it admits is the one lines
\* 8-10 of lib.rs give for that variance.
C1_MarkersHaveDeclaredVariance ==
    /\ \A k \in Kinds, t \in TArgs :
          VarianceIn(MarkerTy(k, t), t) = DeclaredVariance(k)
    /\ \A i \in 1..Len(fields) :
          IsMarker(fields[i]) =>
             \A p \in Params :
                LET v == VarianceIn(fields[i], p)
                IN  IF IsMention(fields[i], p)
                    THEN /\ v = DeclaredVariance(fields[i].con)
                         /\ \A t, u \in TArgs :
                               SubtypeBy(v, t, u) <=>
                                  CASE fields[i].con = "Covariant" -> Sub(t, u)
                                    [] fields[i].con = "Contravariant" -> Sub(u, t)
                                    [] fields[i].con = "Invariant" -> t = u
                    ELSE v = "bi"

C1_Witness ==
    /\ Len(fields) = 3
    /\ {fields[i].con : i \in 1..3} = Kinds

\* C2: the types satisfying Variance are exactly the three marker families,
\* whatever impl items the client has had accepted: none of them is an impl
\* of Sealed or of Variance, every value the factory returned is a marker,
\* and variance::<M>() for any other M is rejected.
C2_VarianceIsClosed ==
    /\ VarianceTypes(impls) = MarkerTypes(TArgs)
    /\ \A im \in impls : im.trait \notin {"Sealed", "Variance"}
    /\ \A i \in 1..Len(vals) : vals[i].via = "variance" => IsMarker(vals[i].ty)
    /\ (diag.op = "variance" /\ ~IsMarker(diag.ty)) => diag.code = "E0277"
    /\ (diag.op = "variance" /\ IsMarker(diag.ty)) => diag.code = "ok"

C2_Witness ==
    /\ [trait |-> "Default", ty |-> Ty("Mine", <<>>)] \in impls
    /\ diag = Verdict("variance", Ty("Mine", <<>>), "E0277", NoCmp)

\* C3: variance::<M>() returns the value M::default() returns, for each of
\* the three kinds and every T: every value obtained from the factory is the
\* default value of its type, it equals every value of that type obtained
\* from default() or from another call of the factory, and a call at a
\* marker type is never rejected.
C3_FactoryIsDefault ==
    /\ \A i \in 1..Len(vals) :
          vals[i].via = "variance" =>
             /\ IsMarker(vals[i].ty)
             /\ vals[i].val.ty = vals[i].ty
             /\ vals[i].val = DefaultOf(vals[i].ty)
             /\ \A j \in 1..Len(vals) :
                   (vals[j].via \in {"variance", "default"}
                      /\ vals[j].ty = vals[i].ty)
                   => vals[j].val = vals[i].val
    /\ (diag.op = "variance" /\ IsMarker(diag.ty)) => diag.code = "ok"

C3_Witness ==
    \E i, j \in 1..Len(vals) :
       /\ vals[i].via = "variance"
       /\ vals[j].via = "default"
       /\ vals[i].ty = vals[j].ty
       /\ vals[i].ty.con = "Invariant"

\* C4 (as claimed): every marker the client holds, whatever its T, is Copy,
\* Clone, PartialEq, Eq, PartialOrd, Ord, Hash and Debug, so no copy, clone
\* or comparison of markers is rejected.
C4_AllCapabilitiesForEveryT ==
    /\ \A i \in 1..Len(vals) :
          \A d \in DeriveList : Implements(d, vals[i].ty, impls)
    /\ diag.op \in {"copy", "clone", "compare"} => diag.code = "ok"

\* C5: Default::default() is available at every marker type, for every T
\* (unsized, or with no capability at all), is never rejected, and the value
\* it returns holds no value of T.
C5_DefaultForEveryT ==
    /\ \A m \in MarkerTypes(TArgs) : Implements("Default", m, impls)
    /\ diag.op = "default" => diag.code = "ok"
    /\ \A i \in 1..Len(vals) :
          vals[i].via = "default" =>
             /\ vals[i].val = DefaultOf(vals[i].ty)
             /\ HeldT(vals[i].val) = {}

C5_Witness ==
    \E i, j \in 1..Len(vals) :
       /\ vals[i].via = "default"
       /\ vals[j].via = "default"
       /\ vals[i].ty.args[1].con = "str"
       /\ vals[j].ty.args[1].con = "Opaque"

\* C6 (as claimed): for every T, two instances of one marker type, however
\* obtained, compare equal under ==, compare Equal under the ordering and
\* hash identically.
C6_InstancesInterchangeable ==
    diag.op = "compare" =>
       diag.result = [eq |-> "true", ord |-> "Equal", hash |-> "same"]

\* C7: with exactly the fields Covariant<Arg> and Contravariant<Ret>, the
\* struct is covariant in Arg and contravariant in Ret: Func<a1, r1> may be
\* used as Func<a2, r2> exactly when a1 is a subtype of a2 and r2 a subtype
\* of r1.  And in every struct the variance of a parameter is decided by the
\* fields that mention it alone.
C7_FuncVariance ==
    /\ ( /\ Len(fields) = 2
         /\ {fields[1], fields[2]} =
               {Ty("Covariant", <<Ty("Arg", <<>>)>>),
                Ty("Contravariant", <<Ty("Ret", <<>>)>>)} )
       => /\ InferredVariance(fields, "Arg") = "co"
          /\ InferredVariance(fields, "Ret") = "contra"
          /\ diag.code = "ok"
          /\ \A a1, a2, r1, r2 \in TArgs :
                Assignable(fields, a1, r1, a2, r2) <=> (Sub(a1, a2) /\ Sub(r2, r1))
          /\ Assignable(fields, "RefStatic", "u8", "RefShort", "u8")
          /\ ~Assignable(fields, "RefShort", "u8", "RefStatic", "u8")
          /\ Assignable(fields, "u8", "RefShort", "u8", "RefStatic")
          /\ ~Assignable(fields, "u8", "RefStatic", "u8", "RefShort")
    /\ \A p \in Params :
          InferredVariance(fields, p) =
             InferredVariance(SelectSeq(fields, LAMBDA f : IsMention(f, p)), p)

C7_Witness ==
    fields = <<Ty("Covariant", <<Ty("Arg", <<>>)>>),
               Ty("Contravariant", <<Ty("Ret", <<>>)>>)>>

HasField(fs, con, p) == \E i \in 1..Len(fs) : fs[i] = Ty(con, <<Ty(p, <<>>)>>)

\* C8 (state part): a struct with a covariant use of p (Box<p> or &'a p)
\* and a Contravariant<p> field is invariant in p, and so is a struct with an
\* Invariant<p> field whatever its other fields: neither a subtype nor a
\* supertype may be substituted for p.
C8_ConflictState ==
    \A p \in Params :
       ( \/ /\ HasField(fields, "Box", p) \/ HasField(fields, "Ref", p)
            /\ HasField(fields, "Contravariant", p)
         \/ HasField(fields, "Invariant", p) )
       => /\ InferredVariance(fields, p) = "inv"
          /\ \A t, u \in TArgs :
                SubtypeBy(InferredVariance(fields, p), t, u) <=> t = u

\* C8 (step part): adding a field to a struct that is invariant in p leaves
\* it invariant in p.
C8_AddingKeepsInvariance ==
    \A p \in Params :
       (InferredVariance(fields, p) = "inv" /\ Len(fields') > Len(fields))
       => InferredVariance(fields', p) = "inv"

\* C8: conflicting directions collapse to invariance, an Invariant<T> field
\* makes the struct invariant in T whatever else it holds, and no field added
\* later makes it covariant or contravariant again.
C8_ConflictsCollapse == [](C8_ConflictState) /\ [][C8_AddingKeepsInvariance]_vars

C8_Witness ==
    /\ Len(fields) = 3
    /\ fields[1] = Ty("Ref", <<Ty("Arg", <<>>)>>)
    /\ fields[2] = Ty("Contravariant", <<Ty("Arg", <<>>)>>)
    /\ fields[3] = Ty("Covariant", <<Ty("Arg", <<>>)>>)

NonMarkers(fs) == SelectSeq(fs, LAMBDA f : ~IsMarker(f))

\* C9: every marker type is zero-sized for every T and owns no T: its size
\* is 0, its default value holds no value of T, and the client's struct has
\* the size and the owned parameters it has without its marker fields.
C9_MarkersAreZeroSized ==
    /\ \A m \in MarkerTypes(TArgs) :
          /\ SizeOf(m) = 0
          /\ ~Owns(m, m.args[1].con)
          /\ HeldT(DefaultOf(m)) = {}
    /\ \A i \in 1..Len(fields) :
          IsMarker(fields[i]) =>
             /\ SizeOf(fields[i]) = 0
             /\ \A p \in Params : ~Owns(fields[i], p)
    /\ StructSize(fields) = StructSize(NonMarkers(fields))
    /\ OwnedParams(fields) = OwnedParams(NonMarkers(fields))

C9_Witness ==
    /\ Len(fields) = 3
    /\ fields[1] = Ty("u32", <<>>)
    /\ fields[2] = Ty("Box", <<Ty("Ret", <<>>)>>)
    /\ fields[3] = Ty("Covariant", <<Ty("Arg", <<>>)>>)
    /\ StructSize(fields) = 16

\* The two components of an Invariant<T> value, and the value built of two.
Decompose(v) == v.parts[1].parts

Rebuild(ty, pair) == Val(ty, <<Val(FieldTy(ty), pair)>>)

\* C10: an Invariant<T> value is the pair of a Covariant<T> and a
\* Contravariant<T> and nothing else: its single field has exactly two
\* components, the defaults of Covariant<T> and of Contravariant<T>, and
\* rebuilding from them gives the value again.
C10_InvariantIsThePair ==
    \A i \in 1..Len(vals) :
       LET v == vals[i].val
       IN  vals[i].ty.con = "Invariant" =>
              /\ v.ty = vals[i].ty
              /\ Len(v.parts) = 1
              /\ Len(v.parts[1].parts) = 2
              /\ Decompose(v)[1] = DefaultOf(Ty("Covariant", v.ty.args))
              /\ Decompose(v)[2] = DefaultOf(Ty("Contravariant", v.ty.args))
              /\ Rebuild(v.ty, Decompose(v)) = v
              /\ Rebuild(v.ty, <<DefaultOf(Ty("Covariant", v.ty.args)),
                                 DefaultOf(Ty("Contravariant", v.ty.args))>>) = v

C10_Witness ==
    \E i \in 1..Len(vals) :
       /\ vals[i].ty = MarkerTy("Invariant", "str")
       /\ vals[i].via = "default"

====
